---- MODULE Spec2Model ----
(***************************************************************************)
(* A model of fart's Canvas (src/src/canvas.rs): the paper, the view, the  *)
(* SlotMap of layers and the layer id counter, with one action per public  *)
(* method.                                                                 *)
(* Beside it, the Polyline of the 2d-geom crate (`polyline`) and the Paper *)
(* of src/src/units.rs (`sheet`), each with one action per method.         *)
(*                                                                         *)
(* Numbers.  Coordinates are f64 in the source.  The model uses integers:  *)
(* every value it computes is a small integer, which f64 represents and    *)
(* adds/multiplies exactly.  F64_MAX stands for std::f64::MAX, the seed of *)
(* the running minimum in fit_view_to_paths; all that the model uses of it *)
(* is that it is finite and above every coordinate a path can hold.        *)
(*                                                                         *)
(* Panics.  unimplemented!(), a failed assert! and unwrap() on None abort  *)
(* the call.  `panicked` records which one; a panicked program takes no    *)
(* further step.                                                           *)
(*                                                                         *)
(* History.  `last` records the latest call (method, key, argument and     *)
(* result), `issued` the keys create_layer has returned and `removed` the  *)
(* keys remove_layer has returned Ok for.                                  *)
(*                                                                         *)
(* Beside these, the output callback of the cli crate's serve command      *)
(* (src/crates/cli/src/serve/mod.rs): its buffer and its flag, with the    *)
(* chunks it received and the broadcasts it attempted.                     *)
(***************************************************************************)
EXTENDS Integers, Sequences, FiniteSets, TLC

VARIABLES paper, view, slots, free_head, layer_id_counter,
          issued, panicked, last, polyline, sheet, removed,
          output_buffer, parsing_params, received, broadcasts

\* The state of serve's output callback, with its history.
serve_vars == <<output_buffer, parsing_params, received, broadcasts>>

vars == <<paper, view, slots, free_head, layer_id_counter,
          issued, panicked, last, polyline, sheet, removed, serve_vars>>

(* ------------------------------ bounds -------------------------------- *)

\* create_layer is called at most MaxCreates times in a run (MaxCreates + 1
\* times where the layers' life cycle is the subject).
MaxCreates == 2

\* The canvas holds at most MaxPaths paths in all.
MaxPaths == 2

(* ------------------------------ numbers ------------------------------- *)

\* std::f64::MAX; std::f64::MIN is its negation.
F64_MAX == 1000000

F64_MIN == -F64_MAX

FloatOrdMin(a, b) == IF a <= b THEN a ELSE b

FloatOrdMax(a, b) == IF a >= b THEN a ELSE b

point2(px, py) == [x |-> px, y |-> py]

(* ------------------------------- Aabb --------------------------------- *)

\* Aabb::new: the box, or the assertion failure when a corner pair is out
\* of order.
AabbNew(mn, mx) ==
    IF mn.x <= mx.x /\ mn.y <= mx.y
    THEN [ok |-> TRUE, min |-> mn, max |-> mx]
    ELSE [ok |-> FALSE, min |-> mn, max |-> mx]

Aabb(mn, mx) == [min |-> mn, max |-> mx]

(* --------------------------- paths, commands -------------------------- *)

\* LineCommand variants that carry absolute points; pts lists them in the
\* order of the variant's fields.
MoveTo(p) == [op |-> "MoveTo", pts |-> <<p>>]

LineTo(p) == [op |-> "LineTo", pts |-> <<p>>]

SmoothQuadtraticCurveTo(p) == [op |-> "SmoothQuadtraticCurveTo", pts |-> <<p>>]

CubicBezierTo(control_1, control_2, end) ==
    [op |-> "CubicBezierTo", pts |-> <<control_1, control_2, end>>]

SmoothCubicBezierTo(control, end) ==
    [op |-> "SmoothCubicBezierTo", pts |-> <<control, end>>]

QuadraticBezierTo(control, end) ==
    [op |-> "QuadraticBezierTo", pts |-> <<control, end>>]

Close == [op |-> "Close", pts |-> <<>>]

\* The variants fit_view_to_paths answers with unimplemented!().
UnimplementedOps ==
    {"MoveBy", "LineBy", "HorizontalLineTo", "HorizontalLineBy",
     "VerticalLineTo", "VerticalLineBy", "CubicBezierBy",
     "SmoothCubicBezierBy", "QuadraticBezierBy", "SmoothQuadtraticCurveBy",
     "ArcTo", "ArcBy"}

\* A relative, horizontal/vertical or arc command; v is the point or vector
\* it carries (a scalar is held in x).
Other(op, v) == [op |-> op, pts |-> <<v>>]

AbsoluteOps ==
    {"MoveTo", "LineTo", "SmoothQuadtraticCurveTo", "CubicBezierTo",
     "SmoothCubicBezierTo", "QuadraticBezierTo", "Close"}

\* The ops whose payload is a displacement, not a position.
VectorOps ==
    {"MoveBy", "LineBy", "HorizontalLineBy", "VerticalLineBy", "CubicBezierBy",
     "SmoothCubicBezierBy", "QuadraticBezierBy", "SmoothQuadtraticCurveBy",
     "ArcBy"}

(* ----------------------------- transforms ----------------------------- *)

\* euclid::Transform2D restricted to what the canvas builds: a scale
\* (sx, sy) followed by a translation (tx, ty).
Transform(sx, sy, tx, ty) == [sx |-> sx, sy |-> sy, tx |-> tx, ty |-> ty]

transform_point(t, p) == point2(p.x * t.sx + t.tx, p.y * t.sy + t.ty)

transform_vector(t, v) == point2(v.x * t.sx, v.y * t.sy)

\* Path::transform: the map applied to every point of every command, in
\* order; a displacement takes the linear part only.
CommandTransform(t, cmd) ==
    [op  |-> cmd.op,
     pts |-> [i \in 1..Len(cmd.pts) |->
                 IF cmd.op \in VectorOps
                 THEN transform_vector(t, cmd.pts[i])
                 ELSE transform_point(t, cmd.pts[i])]]

PathTransform(t, path) == [i \in 1..Len(path) |-> CommandTransform(t, path[i])]

(* ------------------------------ inputs -------------------------------- *)

\* Papers: width, height and the margin the canvas reads (self.paper.margin).
PaperA4 == [width |-> 210, height |-> 297, margin |-> 10]

PaperSmall == [width |-> 7, height |-> 4, margin |-> 1]

\* Pens: the colour and the nib size create_layer reads.
PenBlack == [color |-> "black", nib |-> 3]

PenRed == [color |-> "red", nib |-> 5]

\* Canvas-space paths.
PathLine == <<MoveTo(point2(0, 0)), LineTo(point2(1, 1))>>

PathCurve ==
    <<MoveTo(point2(1, 0)),
      CubicBezierTo(point2(6, -2), point2(-3, 5), point2(1, 1)),
      SmoothCubicBezierTo(point2(2, 8), point2(0, 1)),
      Close>>

PathClose == <<Close>>

PathRelative ==
    <<MoveTo(point2(2, 2)), Other("LineBy", point2(1, 1)), LineTo(point2(9, 9))>>

\* Normalized-space paths.
NormalLine == <<MoveTo(point2(0, 0)), LineTo(point2(1, 1))>>

NormalCurve ==
    <<QuadraticBezierTo(point2(-1, 2), point2(1, 0)),
      SmoothQuadtraticCurveTo(point2(0, 1))>>

NormalArc == <<Other("ArcTo", point2(1, 1)), MoveTo(point2(0, 0))>>

\* What to_paths() of a drawable yields: a finite sequence of paths.  The
\* drawables over a set of paths: none, one or two of them.
DrawablesOf(paths) ==
    {<<>>} \cup {<<p>> : p \in paths} \cup {<<p, q>> : p, q \in paths}

\* The items of an iterator handed to draw_many / draw_n_many: no item, one
\* drawable of up to two paths, or two drawables of up to one path.
ManyOf(paths) ==
    {<<>>} \cup {<<d>> : d \in DrawablesOf(paths)}
           \cup {<<d, e>> : d, e \in {<<>>} \cup {<<p>> : p \in paths}}

\* A view handed to set_view.
ViewSmall == Aabb(point2(-5, -5), point2(50, 60))

(* ------------------------------ SlotMap ------------------------------- *)

NoLayer == [id |-> -1, paths |-> <<>>, color |-> "", nib_size |-> 0]

\* A LayerKey: the slot index and the version the slot had when the key was
\* returned.  Slot 0 is the map's sentinel and never holds a value.
Key(idx, version) == [idx |-> idx, version |-> version]

Occupied(slot) == slot.version % 2 = 1

\* contains_key with the version left out of the comparison.
containsKeyAnyVersion(ss, key) ==
    /\ key.idx \in 1..Len(ss)
    /\ ss[key.idx].version % 2 = 1

\* SlotMap::contains_key
contains_key(ss, key) ==
    /\ key.idx \in 1..Len(ss)
    /\ ss[key.idx].version = key.version

\* insert with a reused slot's version started again at 1.
insertVersionReset(ss, fh, value) ==
    IF fh \in 1..Len(ss)
    THEN [key       |-> Key(fh, 1),
          slots     |-> [ss EXCEPT ![fh] = [version   |-> 1,
                                            value     |-> value,
                                            next_free |-> 0]],
          free_head |-> ss[fh].next_free]
    ELSE [key       |-> Key(Len(ss) + 1, 1),
          slots     |-> Append(ss, [version |-> 1, value |-> value, next_free |-> 0]),
          free_head |-> Len(ss) + 2]

\* SlotMap::insert: the free list's head is reused, its version made odd;
\* with no free slot a new one is pushed with version 1.  Yields the key,
\* the slots and the free head.
insert(ss, fh, value) ==
    IF fh \in 1..Len(ss)
    THEN LET occupied_version ==
                 IF ss[fh].version % 2 = 0 THEN ss[fh].version + 1
                                           ELSE ss[fh].version
         IN  [key       |-> Key(fh, occupied_version),
              slots     |-> [ss EXCEPT ![fh] = [version   |-> occupied_version,
                                                value     |-> value,
                                                next_free |-> 0]],
              free_head |-> ss[fh].next_free]
    ELSE [key       |-> Key(Len(ss) + 1, 1),
          slots     |-> Append(ss, [version |-> 1, value |-> value, next_free |-> 0]),
          free_head |-> Len(ss) + 2]

\* SlotMap::remove on a key the map contains: the slot joins the free list
\* and its version is bumped, so the key no longer matches.
remove_from_slot(ss, fh, idx) ==
    [slots     |-> [ss EXCEPT ![idx] = [version   |-> ss[idx].version + 1,
                                        value     |-> NoLayer,
                                        next_free |-> fh]],
     free_head |-> idx]

\* values with the vacant slots among the layers.
RECURSIVE valuesWithVacant(_)
valuesWithVacant(ss) ==
    IF ss = <<>> THEN <<>> ELSE <<Head(ss).value>> \o valuesWithVacant(Tail(ss))

\* SlotMap::values: the occupied slots' values in slot order.
RECURSIVE values(_)
values(ss) ==
    IF ss = <<>> THEN <<>>
    ELSE LET rest == values(SubSeq(ss, 1, Len(ss) - 1))
             s    == ss[Len(ss)]
         IN  IF Occupied(s) THEN Append(rest, s.value) ELSE rest

\* The keys of the live layers.
LiveKeys(ss) == {Key(i, ss[i].version) : i \in {j \in 1..Len(ss) : Occupied(ss[j])}}

is_empty(ss) == \A i \in 1..Len(ss) : ~Occupied(ss[i])

(* --------------------------- canvas: reads ---------------------------- *)

\* width with the margin taken off one side only.
widthOneMargin(pp) == pp.width - pp.margin

\* Canvas::width
width(pp) == pp.width - pp.margin - pp.margin

\* Canvas::height
height(pp) == pp.height - pp.margin - pp.margin

\* Canvas::canvas_transform: scale by the usable size, then translate by
\* the margin.
canvas_transform(pp) == Transform(width(pp), height(pp), pp.margin, pp.margin)

\* margin_transform with the projection of the normalized space in its place.
marginTransformScaling(pp) == canvas_transform(pp)

\* Canvas::margin_transform: translate by the margin.
margin_transform(pp) == Transform(1, 1, pp.margin, pp.margin)

(* ------------------------- fit_view_to_paths -------------------------- *)

\* The running box before the loops.
FitSeed == [st |-> "ok", min_x |-> F64_MAX, min_y |-> F64_MAX,
            max_x |-> F64_MIN, max_y |-> F64_MIN]

\* The closure process_point: the running box widened to hold p.
process_point(acc, p) ==
    [acc EXCEPT !.min_x = FloatOrdMin(acc.min_x, p.x),
                !.min_y = FloatOrdMin(acc.min_y, p.y),
                !.max_x = FloatOrdMax(acc.max_x, p.x),
                !.max_y = FloatOrdMax(acc.max_y, p.y)]

\* FitCommand with the control points of the curves left out.
FitCommandEndOnly(acc, cmd) ==
    CASE cmd.op \in AbsoluteOps \ {"Close"} ->
             process_point(acc, cmd.pts[Len(cmd.pts)])
      [] cmd.op = "Close" -> acc
      [] OTHER -> [acc EXCEPT !.st = "unimplemented"]

\* FitCommand with the unsupported commands skipped like Close.
FitCommandSkipping(acc, cmd) ==
    IF cmd.op \in AbsoluteOps \ {"Close"}
    THEN LET RECURSIVE All(_, _)
             All(a, i) == IF i > Len(cmd.pts) THEN a
                          ELSE All(process_point(a, cmd.pts[i]), i + 1)
         IN  All(acc, 1)
    ELSE acc

\* One arm of the match on a command.  acc.st turns "unimplemented" at a
\* relative, horizontal/vertical or arc command.
FitCommand(acc, cmd) ==
    CASE cmd.op \in {"MoveTo", "LineTo", "SmoothQuadtraticCurveTo"} ->
             process_point(acc, cmd.pts[1])
      [] cmd.op = "CubicBezierTo" ->
             process_point(process_point(process_point(acc, cmd.pts[1]),
                                         cmd.pts[2]), cmd.pts[3])
      [] cmd.op \in {"SmoothCubicBezierTo", "QuadraticBezierTo"} ->
             process_point(process_point(acc, cmd.pts[1]), cmd.pts[2])
      [] cmd.op = "Close" -> acc
      [] OTHER -> [acc EXCEPT !.st = "unimplemented"]

\* for cmd in path.commands.iter(): the loop ends at the first panic.
RECURSIVE FitCommands(_, _)
FitCommands(acc, cmds) ==
    IF cmds = <<>> \/ acc.st # "ok" THEN acc
    ELSE FitCommands(FitCommand(acc, Head(cmds)), Tail(cmds))

\* FitPaths with the running box seeded anew at every path.
RECURSIVE FitPathsReseed(_, _)
FitPathsReseed(acc, paths) ==
    IF paths = <<>> \/ acc.st # "ok" THEN acc
    ELSE FitPathsReseed(FitCommands(FitSeed, Head(paths)), Tail(paths))

\* for path in layer.paths.iter()
RECURSIVE FitPaths(_, _)
FitPaths(acc, paths) ==
    IF paths = <<>> \/ acc.st # "ok" THEN acc
    ELSE FitPaths(FitCommands(acc, Head(paths)), Tail(paths))

\* for layer in self.layers.values()
RECURSIVE FitLayers(_, _)
FitLayers(acc, ls) ==
    IF ls = <<>> \/ acc.st # "ok" THEN acc
    ELSE FitLayers(FitPaths(acc, Head(ls).paths), Tail(ls))

\* FitFinish with the box stored as it is, not built by Aabb::new.
FitFinishUnchecked(acc, v) ==
    [panic |-> "none",
     view  |-> Aabb(point2(acc.min_x, acc.min_y), point2(acc.max_x, acc.max_y))]

\* What the end of fit_view_to_paths does with the reduced box: Aabb::new,
\* then set_view.
FitFinish(acc, v) ==
    LET box == AabbNew(point2(acc.min_x, acc.min_y), point2(acc.max_x, acc.max_y))
    IN  IF box.ok THEN [panic |-> "none", view |-> Aabb(box.min, box.max)]
                  ELSE [panic |-> "assert", view |-> v]

\* fit_view_to_paths on the layers ls (self.layers.values(); none when
\* self.layers.is_empty()) and the view v: the panic it ends in, if any, and
\* the view the canvas holds afterwards.
FitOutcome(ls, v) ==
    IF ls = <<>> THEN [panic |-> "none", view |-> v]
    ELSE LET acc == FitLayers(FitSeed, ls)
         IN  IF acc.st # "ok" THEN [panic |-> acc.st, view |-> v]
             ELSE FitFinish(acc, v)

FitView(ss, v) == FitOutcome(values(ss), v)

(* ------------------------------ actions ------------------------------- *)

\* The number of paths the canvas holds.
RECURSIVE CountPaths(_)
CountPaths(ls) == IF ls = <<>> THEN 0 ELSE Len(Head(ls).paths) + CountPaths(Tail(ls))

\* Flatten that stops after the first item.
flattenFirstItem(items) == IF items = <<>> THEN <<>> ELSE Head(items)

\* The paths of an iterator's items, item after item: to_paths() of each.
RECURSIVE Flatten(_)
Flatten(items) ==
    IF items = <<>> THEN <<>> ELSE Head(items) \o Flatten(Tail(items))

\* The keys the callers try: every key this canvas has returned, a key whose
\* slot does not exist and a key of slot 1 with a version no slot reaches.
KeysToTry == issued \cup {Key(Len(slots) + 1, 1), Key(1, 2 * MaxCreates + 3)}

\* No Polyline has been built; no Paper of units.rs has been made.
NoPolyline == [made |-> FALSE, vertices |-> <<>>]

NoSheet == [made |-> FALSE]

\* What a call left behind: the method, the key it took or returned, its
\* argument and how it ended.
Call(op, key, arg, ret) == [op |-> op, key |-> key, arg |-> arg, ret |-> ret]

\* Canvas::new
InitOn(papers) ==
    /\ paper \in papers
    /\ view = Aabb(point2(0, 0), point2(paper.width, paper.height))
    /\ slots = <<>>
    /\ free_head = 1
    /\ layer_id_counter = 0
    /\ issued = {}
    /\ removed = {}
    /\ panicked = "none"
    /\ last = Call("new", Key(0, 0), <<>>, "ok")
    /\ polyline = NoPolyline
    /\ sheet = NoSheet
    /\ output_buffer = <<>>
    /\ parsing_params = FALSE
    /\ received = <<>>
    /\ broadcasts = <<>>

\* The layer create_layer builds from the pen and the id counter.
NewLayer(pen, counter) ==
    [id |-> counter, paths |-> <<>>, color |-> pen.color, nib_size |-> pen.nib]

\* Canvas::create_layer
create_layer(pens, limit) ==
    /\ panicked = "none"
    /\ layer_id_counter < limit
    /\ \E pen \in pens :
          LET r == insert(slots, free_head, NewLayer(pen, layer_id_counter))
          IN  /\ slots' = r.slots
              /\ free_head' = r.free_head
              /\ layer_id_counter' = layer_id_counter + 1
              /\ issued' = issued \cup {r.key}
              /\ last' = Call("create_layer", r.key, pen, "ok")
    /\ UNCHANGED <<serve_vars, removed, polyline, sheet, paper, view, panicked>>

\* Canvas::remove_layer
remove_layer ==
    /\ panicked = "none"
    /\ \E key \in KeysToTry :
          IF contains_key(slots, key)
          THEN LET r == remove_from_slot(slots, free_head, key.idx)
               IN  /\ slots' = r.slots
                   /\ free_head' = r.free_head
                   /\ removed' = removed \cup {key}
                   /\ last' = Call("remove_layer", key, <<>>, "Ok")
          ELSE /\ last' = Call("remove_layer", key, <<>>, "Err")
               /\ UNCHANGED <<slots, free_head, removed>>
    /\ UNCHANGED <<serve_vars, polyline, sheet, paper, view,
                   layer_id_counter, issued, panicked>>

\* PushAll with the new paths put in front of the layer's paths.
PushAllInFront(layer, t, paths) ==
    [layer EXCEPT !.paths = [i \in 1..Len(paths) |-> PathTransform(t, paths[i])]
                               \o layer.paths]

\* layer.paths.push(path.transform(&t)) for each path of paths, in order.
PushAll(layer, t, paths) ==
    [layer EXCEPT !.paths = layer.paths \o
                     [i \in 1..Len(paths) |-> PathTransform(t, paths[i])]]

\* The body the four draw methods share: get_layer(key) (unwrap, so a key
\* the map does not contain panics before anything is pushed), then the
\* pushes.  args is the set of arguments tried, each with the paths it
\* yields.
DrawInto(op, t, args) ==
    /\ panicked = "none"
    /\ \E key \in KeysToTry :
          IF contains_key(slots, key)
          THEN \E a \in args :
                  /\ CountPaths(values(slots)) + Len(a.paths) <= MaxPaths
                  /\ slots' = [slots EXCEPT
                                  ![key.idx].value = PushAll(@, t, a.paths)]
                  /\ last' = Call(op, key, a.arg, "ok")
                  /\ UNCHANGED panicked
          ELSE /\ panicked' = "unwrap"
               /\ last' = Call(op, key, <<>>, "panic")
               /\ UNCHANGED slots
    /\ UNCHANGED <<serve_vars, removed, polyline, sheet, paper, view,
                   free_head, layer_id_counter, issued>>

\* to_paths() of a drawable: the drawable is held as the paths it yields.
to_paths(d) == d

\* Canvas::draw
draw(paths) ==
    DrawInto("draw", margin_transform(paper),
             {[arg |-> d, paths |-> to_paths(d)] : d \in DrawablesOf(paths)})

\* Canvas::draw_n
draw_n(paths) ==
    DrawInto("draw_n", canvas_transform(paper),
             {[arg |-> d, paths |-> to_paths(d)] : d \in DrawablesOf(paths)})

\* Canvas::draw_many
draw_many(paths) ==
    DrawInto("draw_many", margin_transform(paper),
             {[arg |-> items, paths |-> Flatten(items)] : items \in ManyOf(paths)})

\* Canvas::draw_n_many
draw_n_many(paths) ==
    DrawInto("draw_n_many", canvas_transform(paper),
             {[arg |-> items, paths |-> Flatten(items)] : items \in ManyOf(paths)})

\* Canvas::set_view
set_view(views) ==
    /\ panicked = "none"
    /\ \E v \in views :
          /\ view' = v
          /\ last' = Call("set_view", Key(0, 0), v, "ok")
    /\ UNCHANGED <<serve_vars, removed, polyline, sheet, paper, slots,
                   free_head, layer_id_counter, issued, panicked>>

\* Canvas::fit_view_to_paths
fit_view_to_paths ==
    /\ panicked = "none"
    /\ LET r == FitView(slots, view)
       IN  /\ view' = r.view
           /\ panicked' = r.panic
           /\ last' = Call("fit_view_to_paths", Key(0, 0), <<>>,
                           IF r.panic = "none" THEN "ok" ELSE "panic")
    /\ UNCHANGED <<serve_vars, removed, polyline, sheet, paper, slots,
                   free_head, layer_id_counter, issued>>

(* ------------------------------ create_svg ---------------------------- *)

\* Unit::SUFFIX of the paper's unit (Millis).
SUFFIX == "mm"

\* format!("{}", n): the decimal text of a number.
Format(n) == ToString(n)

\* Aabb::width and Aabb::height: derived from the corners.
AabbWidth(b) == b.max.x - b.min.x

AabbHeight(b) == b.max.y - b.min.y

\* impl From<&Layer> for Group: the attributes of a layer's group.
GroupOf(layer) ==
    [fill     |-> "none",
     id       |-> "layer" \o Format(layer.id + 1),
     label    |-> Format(layer.id + 1),
     stroke   |-> "rgb(" \o layer.color \o ")",
     linecap  |-> "round",
     children |-> <<>>]

\* A path element: the path's data and the stroke-width attribute.
PathElement(path, nib_size) == [d |-> path, stroke_width |-> Format(nib_size)]

\* The body of the loop over the layers: the group with one path element
\* per path of the layer, in the layer's order.
LayerNode(layer) ==
    [GroupOf(layer) EXCEPT
        !.children = [i \in 1..Len(layer.paths) |->
                         PathElement(layer.paths[i], layer.nib_size)]]

\* SvgDocument with the size of the drawing area as the document's size.
svgDocumentUsableSize(pp, v, ss) ==
    [viewBox  |-> Format(v.min.x) \o " " \o Format(v.min.y) \o " "
                  \o Format(AabbWidth(v)) \o " " \o Format(AabbHeight(v)),
     width    |-> Format(width(pp)) \o SUFFIX,
     height   |-> Format(height(pp)) \o SUFFIX,
     children |-> [i \in 1..Len(values(ss)) |-> LayerNode(values(ss)[i])]]

\* The document create_svg builds from the paper, the view and the layers.
SvgDocument(pp, v, ss) ==
    [viewBox  |-> Format(v.min.x) \o " " \o Format(v.min.y) \o " "
                  \o Format(AabbWidth(v)) \o " " \o Format(AabbHeight(v)),
     width    |-> Format(pp.width) \o SUFFIX,
     height   |-> Format(pp.height) \o SUFFIX,
     children |-> [i \in 1..Len(values(ss)) |-> LayerNode(values(ss)[i])]]

\* create_svg that takes the paths out of the layers it renders.
createSvgDraining ==
    /\ panicked = "none"
    /\ slots' = [i \in 1..Len(slots) |-> [slots[i] EXCEPT !.value.paths = <<>>]]
    /\ last' = Call("create_svg", Key(0, 0), <<>>,
                    SvgDocument(paper, view, slots))
    /\ UNCHANGED <<serve_vars, removed, polyline, sheet, paper, view,
                   free_head, layer_id_counter, issued, panicked>>

\* Canvas::create_svg
create_svg ==
    /\ panicked = "none"
    /\ last' = Call("create_svg", Key(0, 0), <<>>,
                    SvgDocument(paper, view, slots))
    /\ UNCHANGED <<serve_vars, removed, polyline, sheet, paper, view, slots,
                   free_head, layer_id_counter, issued, panicked>>

(* ------------------------------ Polyline ------------------------------ *)

\* A Polyline is handed at most MaxVertices points.
MaxVertices == 3

\* The vectors of points handed to Polyline::new.
VertexVectors ==
    LET pts == {point2(0, 0), point2(1, 2), point2(3, 1)}
    IN  UNION {[1..n -> pts] : n \in 0..MaxVertices}

\* Option<T>
None == [some |-> FALSE]

Some(v) == [some |-> TRUE, value |-> v]

\* The assert of Polyline::new with one point let through.
newAssertNonEmpty(vertices) == Len(vertices) >= 1

\* assert!(vertices.len() >= 2)
NewAssert(vertices) == Len(vertices) >= 2

\* Polyline::new
PolylineNew ==
    /\ panicked = "none"
    /\ \E vertices \in VertexVectors :
          IF NewAssert(vertices)
          THEN /\ polyline' = [made |-> TRUE, vertices |-> vertices]
               /\ last' = Call("Polyline::new", Key(0, 0), vertices, "ok")
               /\ UNCHANGED panicked
          ELSE /\ panicked' = "assert"
               /\ last' = Call("Polyline::new", Key(0, 0), vertices, "panic")
               /\ UNCHANGED polyline
    /\ UNCHANGED <<serve_vars, removed, sheet, paper, view, slots, free_head,
                   layer_id_counter, issued>>

\* Polyline::vertices
vertices ==
    /\ panicked = "none"
    /\ polyline.made
    /\ last' = Call("vertices", Key(0, 0), <<>>, polyline.vertices)
    /\ UNCHANGED <<serve_vars, removed, polyline, sheet, paper, view, slots,
                   free_head, layer_id_counter, issued, panicked>>

\* Vec::get with the index counted from 1.
vecGetFromOne(vec, i) ==
    IF i >= 1 /\ i <= Len(vec) THEN Some(vec[i]) ELSE None

\* self.vertices.get(i).cloned(): i is a usize, the first element is at 0.
VecGet(vec, i) == IF i < Len(vec) THEN Some(vec[i + 1]) ELSE None

\* Polyline::get
get ==
    /\ panicked = "none"
    /\ polyline.made
    /\ \E i \in 0..(MaxVertices + 1) :
          last' = Call("get", Key(0, 0), i, VecGet(polyline.vertices, i))
    /\ UNCHANGED <<serve_vars, removed, polyline, sheet, paper, view, slots,
                   free_head, layer_id_counter, issued, panicked>>

\* Polyline::len
len ==
    /\ panicked = "none"
    /\ polyline.made
    /\ last' = Call("len", Key(0, 0), <<>>, Len(polyline.vertices))
    /\ UNCHANGED <<serve_vars, removed, polyline, sheet, paper, view, slots,
                   free_head, layer_id_counter, issued, panicked>>

\* Polyline::default(), the derived Default: every field's default, which
\* for the Vec of vertices is the empty vector.
PolylineDefault ==
    /\ panicked = "none"
    /\ polyline' = [made |-> TRUE, vertices |-> <<>>]
    /\ last' = Call("Polyline::default", Key(0, 0), <<>>, "ok")
    /\ UNCHANGED <<serve_vars, removed, sheet, paper, view, slots, free_head,
                   layer_id_counter, issued, panicked>>

\* Polyline::clone(), the derived Clone: a Polyline of the same vertices,
\* which takes the place of the one it was cloned from.
PolylineClone ==
    /\ panicked = "none"
    /\ polyline.made
    /\ polyline' = [made |-> TRUE, vertices |-> polyline.vertices]
    /\ last' = Call("clone", Key(0, 0), <<>>, polyline.vertices)
    /\ UNCHANGED <<serve_vars, removed, sheet, paper, view, slots, free_head,
                   layer_id_counter, issued, panicked>>

\* A write through the public field: polyline.vertices = vec, or the struct
\* literal Polyline { vertices: vec }.  Nothing checks the vector.
VerticesAssign ==
    /\ panicked = "none"
    /\ \E vec \in VertexVectors :
          /\ polyline' = [made |-> TRUE, vertices |-> vec]
          /\ last' = Call("vertices =", Key(0, 0), vec, "ok")
    /\ UNCHANGED <<serve_vars, removed, sheet, paper, view, slots, free_head,
                   layer_id_counter, issued, panicked>>

(* -------------------------------- Paper ------------------------------- *)

\* The Paper of units.rs holds f64 values (Millis, Inches).  Its arithmetic
\* is f64 subtraction, which rounds, and a division by 2.0, which does not.
\* The model counts in whole steps of a grid and keeps MantissaBits
\* significant binary digits where f64 keeps 53: a difference is rounded to
\* the nearest number with that many digits, a tie to the even one.  The
\* values handed in are even, so every halving is exact.
MantissaBits == 5

RECURSIVE Pow2(_)
Pow2(n) == IF n = 0 THEN 1 ELSE 2 * Pow2(n - 1)

\* The distance between neighbouring numbers at the magnitude a >= 0.
RECURSIVE Spacing(_, _)
Spacing(a, s) == IF a < Pow2(MantissaBits) * s THEN s ELSE Spacing(a, 2 * s)

\* The number nearest to x, a tie going to the even mantissa.
RoundF64(x) ==
    LET a  == IF x < 0 THEN -x ELSE x
        s  == Spacing(a, 1)
        q  == a \div s
        r  == a % s
        up == 2 * r > s \/ (2 * r = s /\ q % 2 = 1)
        m  == (IF up THEN q + 1 ELSE q) * s
    IN  IF x < 0 THEN -m ELSE m

\* impl std::ops::Sub for Millis
Sub(a, b) == RoundF64(a - b)

\* impl std::ops::Div<f64> for Millis, for the divisor 2.0
Div2(a) == a \div 2

\* Unit::ZERO
ZERO == 0

\* Paper::new
PaperNew(w, h) ==
    [made          |-> TRUE,
     width         |-> w,
     height        |-> h,
     margin_top    |-> ZERO,
     margin_bottom |-> ZERO,
     margin_left   |-> ZERO,
     margin_right  |-> ZERO]

\* switch_orientation with the margins mirrored instead of turned.
switchOrientationMirrored(self) ==
    [made          |-> TRUE,
     width         |-> self.height,
     height        |-> self.width,
     margin_top    |-> self.margin_right,
     margin_bottom |-> self.margin_left,
     margin_left   |-> self.margin_bottom,
     margin_right  |-> self.margin_top]

\* Paper::switch_orientation
switch_orientation(self) ==
    [made          |-> TRUE,
     width         |-> self.height,
     height        |-> self.width,
     margin_top    |-> self.margin_left,
     margin_bottom |-> self.margin_right,
     margin_left   |-> self.margin_top,
     margin_right  |-> self.margin_bottom]

\* Paper::add_margin
add_margin(self, margin) ==
    [made          |-> TRUE,
     width         |-> self.width,
     height        |-> self.height,
     margin_left   |-> margin,
     margin_right  |-> margin,
     margin_top    |-> margin,
     margin_bottom |-> margin]

\* Paper::add_margins
add_margins(self, margin_top, margin_right, margin_bottom, margin_left) ==
    [made          |-> TRUE,
     width         |-> self.width,
     height        |-> self.height,
     margin_left   |-> margin_left,
     margin_right  |-> margin_right,
     margin_top    |-> margin_top,
     margin_bottom |-> margin_bottom]

\* make_square with one margin taken off the short side.
makeSquareOneMargin(self, smallest_margin) ==
    IF self.width > self.height
    THEN LET size         == Sub(self.height, smallest_margin)
             margin_sides == Div2(Sub(self.width, size))
         IN  [self EXCEPT !.margin_top = smallest_margin,
                          !.margin_bottom = smallest_margin,
                          !.margin_left = margin_sides,
                          !.margin_right = margin_sides]
    ELSE LET size         == Sub(self.width, smallest_margin)
             margin_sides == Div2(Sub(self.height, size))
         IN  [self EXCEPT !.margin_top = margin_sides,
                          !.margin_bottom = margin_sides,
                          !.margin_left = smallest_margin,
                          !.margin_right = smallest_margin]

\* Paper::make_square
make_square(self, smallest_margin) ==
    IF self.width > self.height
    THEN LET size == Sub(Sub(self.height, smallest_margin), smallest_margin)
             margin_sides == Div2(Sub(self.width, size))
         IN  [made          |-> TRUE,
              width         |-> self.width,
              height        |-> self.height,
              margin_top    |-> smallest_margin,
              margin_bottom |-> smallest_margin,
              margin_left   |-> margin_sides,
              margin_right  |-> margin_sides]
    ELSE LET size == Sub(Sub(self.width, smallest_margin), smallest_margin)
             margin_sides == Div2(Sub(self.height, size))
         IN  [made          |-> TRUE,
              width         |-> self.width,
              height        |-> self.height,
              margin_top    |-> margin_sides,
              margin_bottom |-> margin_sides,
              margin_left   |-> smallest_margin,
              margin_right  |-> smallest_margin]

\* The widths and heights handed to Paper::new and the margins handed to
\* add_margin, add_margins and make_square: even numbers the model's
\* numbers hold exactly.
PaperSizes == {40, 100}

PaperMargins == {-4, 2, 4, 6}

\* A call of a Paper method: the sheet is replaced by the Paper returned.
PaperCall(op, arg, result) ==
    /\ panicked = "none"
    /\ sheet' = result
    /\ last' = Call(op, Key(0, 0), arg, "ok")
    /\ UNCHANGED <<serve_vars, removed, polyline, paper, view, slots,
                   free_head, layer_id_counter, issued, panicked>>

CallNew ==
    \E w, h \in PaperSizes : PaperCall("Paper::new", <<w, h>>, PaperNew(w, h))

CallSwitchOrientation ==
    /\ sheet.made
    /\ PaperCall("switch_orientation", <<>>, switch_orientation(sheet))

CallAddMargin ==
    /\ sheet.made
    /\ \E m \in PaperMargins :
          PaperCall("add_margin", <<m>>, add_margin(sheet, m))

CallAddMargins ==
    /\ sheet.made
    /\ \E t, r, b, l \in PaperMargins :
          PaperCall("add_margins", <<t, r, b, l>>,
                    add_margins(sheet, t, r, b, l))

CallMakeSquare ==
    /\ sheet.made
    /\ \E m \in PaperMargins :
          PaperCall("make_square", <<m>>, make_square(sheet, m))

(* ------------------------ serve: output callback ---------------------- *)

\* The callback receives at most MaxChunks chunks of output in a run of the
\* model, and the on_start callback runs at most MaxReruns times.
MaxChunks == 3

MaxReruns == 1

\* The markers the callback looks for.
PARAMS_START == "fart: PARAMS START"

PARAMS_END == "fart: PARAMS END"

\* A chunk of output (a &str) is held as the sequence of its pieces: a
\* marker is one piece, the text around it other pieces.  The chunks the
\* watcher hands over: plain text, a marker after some text, and both
\* markers in either order.
Chunks ==
    {<<"x">>,
     <<"x", PARAMS_START>>,
     <<"y", PARAMS_END>>,
     <<PARAMS_START, "p", PARAMS_END>>,
     <<PARAMS_END, PARAMS_START>>}

\* contains that looks at the start of the text only.
containsAtStart(output, pat) == output # <<>> /\ output[1] = pat

\* str::contains(pat): the pattern occurs somewhere in the text.
contains(output, pat) == \E i \in 1..Len(output) : output[i] = pat

\* push_str that replaces what the buffer held.
pushStrReplacing(buffer, output) == output

\* String::push_str
push_str(buffer, output) == buffer \o output

\* What send_output comes to: Event::new and events::broadcast both return a
\* Result, and the first error ends the closure.
SendOutcomes == {"Ok", "failed to serialize output event", "broadcast failed"}

\* One run of a send closure: the event handed to Event::new, with how the
\* closure ended.
Attempt(event, data, outcome) ==
    [event |-> event, data |-> data, outcome |-> outcome]

\* The on_output callback.
on_output ==
    /\ Len(received) < MaxChunks
    /\ \E output \in Chunks :
          LET buffer  == push_str(output_buffer, output)
              started == IF contains(output, PARAMS_START)
                         THEN TRUE ELSE parsing_params
              parsing == IF contains(output, PARAMS_END)
                         THEN FALSE ELSE started
          IN  /\ received' = Append(received, output)
              /\ parsing_params' = parsing
              /\ IF ~parsing
                 THEN \E outcome \in SendOutcomes :
                         /\ broadcasts' =
                               Append(broadcasts,
                                      Attempt("output", buffer, outcome))
                         /\ output_buffer' = <<>>
                         /\ last' = Call("on_output", Key(0, 0), output,
                                         outcome)
                 ELSE /\ output_buffer' = buffer
                      /\ last' = Call("on_output", Key(0, 0), output,
                                      "buffered")
                      /\ UNCHANGED broadcasts
    /\ UNCHANGED <<removed, polyline, sheet, paper, view, slots, free_head,
                   layer_id_counter, issued, panicked>>

\* The number of attempts to send the event called name.
RECURSIVE CountEvents(_, _)
CountEvents(attempts, name) ==
    IF attempts = <<>> THEN 0
    ELSE (IF Head(attempts).event = name THEN 1 ELSE 0)
         + CountEvents(Tail(attempts), name)

\* The on_start callback: a "start" event without data is sent; the buffer
\* and the flag are not touched.
on_start ==
    /\ CountEvents(broadcasts, "start") < MaxReruns
    /\ \E outcome \in {"Ok", "broadcast failed"} :
          /\ broadcasts' = Append(broadcasts, Attempt("start", <<>>, outcome))
          /\ last' = Call("on_start", Key(0, 0), <<>>, outcome)
    /\ UNCHANGED <<output_buffer, parsing_params, received>>
    /\ UNCHANGED <<removed, polyline, sheet, paper, view, slots, free_head,
                   layer_id_counter, issued, panicked>>

(* --------------------------- specifications -------------------------- *)

\* View fitting: one paper, one pen, paths with every kind of command.
InitFit == InitOn({PaperSmall})

NextFit ==
    \/ create_layer({PenBlack}, MaxCreates)
    \/ remove_layer
    \/ draw({PathCurve, PathClose, PathRelative})
    \/ draw_n({NormalCurve, NormalArc})
    \/ fit_view_to_paths

SpecFit == InitFit /\ [][NextFit]_vars

\* Drawing: two papers, the four draw methods, layers that stay.
InitDraw == InitOn({PaperA4, PaperSmall})

NextDraw ==
    \/ create_layer({PenBlack}, MaxCreates)
    \/ draw({PathLine, PathCurve})
    \/ draw_n({NormalLine, NormalCurve})
    \/ draw_many({PathLine, PathCurve})
    \/ draw_n_many({NormalLine, NormalCurve})

SpecDraw == InitDraw /\ [][NextDraw]_vars

\* The layers' life cycle: two pens, every method of the canvas.
InitLayers == InitOn({PaperSmall})

NextLayers ==
    \/ create_layer({PenBlack, PenRed}, MaxCreates + 1)
    \/ remove_layer
    \/ draw({PathLine})
    \/ set_view({ViewSmall})

SpecLayers == InitLayers /\ [][NextLayers]_vars

\* Drawing with keys of every kind: live, removed, never returned.
InitStale == InitOn({PaperSmall})

NextStale ==
    \/ create_layer({PenBlack}, MaxCreates)
    \/ remove_layer
    \/ draw({PathLine})
    \/ draw_n({NormalLine})
    \/ draw_many({PathLine})
    \/ draw_n_many({NormalLine})

SpecStale == InitStale /\ [][NextStale]_vars

\* Exporting a canvas whose layers come and go.
InitSvg == InitOn({PaperSmall})

NextSvg ==
    \/ create_layer({PenBlack, PenRed}, MaxCreates + 1)
    \/ remove_layer
    \/ draw({PathLine, PathCurve})
    \/ create_svg

SpecSvg == InitSvg /\ [][NextSvg]_vars

\* Exporting a canvas whose view changes.
InitSvgView == InitOn({PaperA4, PaperSmall})

NextSvgView ==
    \/ create_layer({PenBlack}, MaxCreates)
    \/ draw({PathCurve})
    \/ set_view({ViewSmall})
    \/ fit_view_to_paths
    \/ create_svg

SpecSvgView == InitSvgView /\ [][NextSvgView]_vars

\* Polylines: built, then read.  The canvas stays as constructed.
InitPolyline == InitOn({PaperSmall})

NextPolyline == PolylineNew \/ vertices \/ get \/ len

SpecPolyline == InitPolyline /\ [][NextPolyline]_vars

\* Polylines made in every way the type offers: new, the derived Default
\* and Clone, and the public field.
InitPolylineApi == InitOn({PaperSmall})

NextPolylineApi ==
    \/ PolylineNew
    \/ PolylineDefault
    \/ PolylineClone
    \/ VerticesAssign
    \/ get
    \/ len

SpecPolylineApi == InitPolylineApi /\ [][NextPolylineApi]_vars

\* The serve command's watcher callbacks.  The canvas stays as constructed.
InitServe == InitOn({PaperSmall})

NextServe == on_output \/ on_start

SpecServe == InitServe /\ [][NextServe]_vars

\* Papers: made, then given margins and turned.  The canvas stays as
\* constructed.
InitPaper == InitOn({PaperSmall})

NextPaper ==
    \/ CallNew
    \/ CallSwitchOrientation
    \/ CallAddMargin
    \/ CallAddMargins
    \/ CallMakeSquare

SpecPaper == InitPaper /\ [][NextPaper]_vars

(* ---------------------- view fitting: the claims ---------------------- *)

\* The paths of the live layers, layer after layer.
RECURSIVE AllPaths(_)
AllPaths(ls) == IF ls = <<>> THEN <<>> ELSE Head(ls).paths \o AllPaths(Tail(ls))

\* The points of every command of every path of every live layer.
PointsOf(ss) ==
    LET ps == AllPaths(values(ss))
    IN  {ps[i][j].pts[k] : <<i, j, k>> \in
            {t \in (1..Len(ps)) \X (1..6) \X (1..3) :
                /\ t[2] <= Len(ps[t[1]])
                /\ t[3] <= Len(ps[t[1]][t[2]].pts)}}

\* The ops of the commands the live layers hold.
OpsOf(ss) ==
    LET ps == AllPaths(values(ss))
    IN  {ps[i][j].op : <<i, j>> \in
            {t \in (1..Len(ps)) \X (1..6) : t[2] <= Len(ps[t[1]])}}

Least(S) == CHOOSE m \in S : \A n \in S : m <= n

Greatest(S) == CHOOSE m \in S : \A n \in S : m >= n

\* A call of fit_view_to_paths has just returned.
FitReturned == last.op = "fit_view_to_paths" /\ last.ret = "ok"

\* This step is a call of fit_view_to_paths.
FitStep == last'.op = "fit_view_to_paths"

\* C1: after fit_view_to_paths on a canvas whose paths hold absolute commands
\* only and at least one point, the view is the least box over all the anchor
\* and control points of all the live layers' paths.
C1_FitIsMinimalBox ==
    (FitReturned /\ OpsOf(slots) \subseteq AbsoluteOps /\ PointsOf(slots) # {})
    => LET xs == {p.x : p \in PointsOf(slots)}
           ys == {p.y : p \in PointsOf(slots)}
       IN  view = Aabb(point2(Least(xs), Least(ys)),
                       point2(Greatest(xs), Greatest(ys)))

\* C1's case: two live layers with paths, fitted, the box's top edge set by a
\* control point of the curve (y = 8, moved by the margin 1).
C1_Witness ==
    /\ FitReturned
    /\ Len(values(slots)) = 2
    /\ \A i \in 1..2 : values(slots)[i].paths # <<>>
    /\ OpsOf(slots) \subseteq AbsoluteOps
    /\ view.max.y = 9
    /\ view.min.x = -2

\* C2: with no path on the canvas (no layer, or only empty layers) a call of
\* fit_view_to_paths is a no-op: it returns and the view is what it was.
C2_NoPathsNoOp ==
    [][(FitStep /\ AllPaths(values(slots)) = <<>>)
          => (panicked' = "none" /\ view' = view)]_vars

C4_UnsupportedPanics ==
    [][(FitStep /\ OpsOf(slots) \cap UnimplementedOps # {})
          => (panicked' = "unimplemented" /\ view' = view)]_vars

\* C4's case: the call panicked at a command that is neither in the first
\* layer nor first in its path, after points were processed.
C4_Witness ==
    /\ panicked = "unimplemented"
    /\ Len(values(slots)) = 2
    /\ LET l1 == values(slots)[1].paths
           l2 == values(slots)[2].paths
       IN  /\ l1 # <<>>
           /\ \A i \in 1..Len(l1) : \A j \in 1..Len(l1[i]) :
                 l1[i][j].op \in AbsoluteOps
           /\ \E i \in 1..Len(l1) : Len(l1[i]) > 1
           /\ \E i \in 1..Len(l2) :
                 /\ l2[i][1].op \in AbsoluteOps
                 /\ \E j \in 2..Len(l2[i]) : l2[i][j].op \in UnimplementedOps

\* The permutations of 1..n.
Perms(n) == {f \in [1..n -> 1..n] : \A i, j \in 1..n : f[i] = f[j] => i = j}

\* The ways to deal the paths ps, in the order f, to k layers: layer i gets
\* the paths after cut c[i-1] up to cut c[i].
Dealt(ps, f, k, c) ==
    [i \in 1..k |->
        LET lo == IF i = 1 THEN 0 ELSE c[i - 1]
            hi == IF i = k THEN Len(ps) ELSE c[i]
        IN  [paths |-> [j \in 1..(hi - lo) |-> ps[f[lo + j]]]]]

Arrangements(ps) ==
    {Dealt(ps, f, k, c) :
        <<f, k, c>> \in
            {t \in Perms(Len(ps)) \X (1..(MaxCreates + 1))
                                  \X [1..MaxCreates -> 0..Len(ps)] :
                \A i \in 1..(MaxCreates - 1) : t[3][i] <= t[3][i + 1]}}

\* C5: the view fit_view_to_paths yields does not depend on the order of the
\* paths nor on how they are dealt to the layers: any canvas with the same
\* paper and the same absolute-command paths is fitted to the same view.
C5_FitOrderIndependent ==
    (FitReturned /\ OpsOf(slots) \subseteq AbsoluteOps)
    => \A ls \in Arrangements(AllPaths(values(slots))) :
          LET r == FitOutcome(ls, view)
          IN  r.view = view /\ (PointsOf(slots) # {} => r.panic = "none")

\* C5's case: a fitted canvas with two different paths that hold points, in
\* two layers.
C5_Witness ==
    /\ FitReturned
    /\ OpsOf(slots) \subseteq AbsoluteOps
    /\ Len(values(slots)) = 2
    /\ \A i \in 1..2 : Len(values(slots)[i].paths) = 1
    /\ values(slots)[1].paths # values(slots)[2].paths
    /\ \A i \in 1..2 : \E j \in 1..Len(values(slots)[i].paths[1]) :
          values(slots)[i].paths[1][j].pts # <<>>

(* ------------------------ drawing: the claims ------------------------- *)

DrawOps == {"draw", "draw_n", "draw_many", "draw_n_many"}

\* The paths a draw call was handed, in the order of its input.
InputPaths(call) ==
    IF call.op \in {"draw", "draw_n"} THEN call.arg
    ELSE LET RECURSIVE Cat(_)
             Cat(items) == IF items = <<>> THEN <<>>
                           ELSE Head(items) \o Cat(Tail(items))
         IN  Cat(call.arg)

\* The commands of a path without their points.
Shape(path) == [j \in 1..Len(path) |-> path[j].op]

\* The last n paths of a layer.
LastPaths(layer, n) ==
    SubSeq(layer.paths, Len(layer.paths) - n + 1, Len(layer.paths))

\* C6: a draw, draw_n, draw_many or draw_n_many with a live key returns and
\* changes that layer's paths only: the paths it held stay, in their order,
\* the new ones follow in input order; the other layers, the set of live
\* layers, the view, the paper, the layer's style stay.
C6_DrawFrame ==
    [][(last'.op \in DrawOps /\ last'.key \in LiveKeys(slots))
          => LET k   == last'.key.idx
                 old == slots[k].value
                 new == slots'[k].value
                 inp == InputPaths(last')
             IN  /\ last'.ret = "ok"
                 /\ Len(new.paths) = Len(old.paths) + Len(inp)
                 /\ SubSeq(new.paths, 1, Len(old.paths)) = old.paths
                 /\ \A j \in 1..Len(inp) :
                       Shape(new.paths[Len(old.paths) + j]) = Shape(inp[j])
                 /\ [new EXCEPT !.paths = <<>>] = [old EXCEPT !.paths = <<>>]
                 /\ Len(slots') = Len(slots)
                 /\ \A i \in 1..Len(slots) :
                       /\ i # k => slots'[i] = slots[i]
                       /\ slots'[i].version = slots[i].version
                 /\ LiveKeys(slots') = LiveKeys(slots)
                 /\ view' = view
                 /\ paper' = paper
                 /\ layer_id_counter' = layer_id_counter]_vars

\* C6's case: a draw call that added one path to a layer which held another,
\* with a second live layer beside it.
C6_Witness ==
    /\ last.op \in DrawOps
    /\ last.ret = "ok"
    /\ Len(values(slots)) = 2
    /\ LET l == slots[last.key.idx].value
       IN  /\ Len(l.paths) = 2
           /\ Len(InputPaths(last)) = 1
           /\ Shape(l.paths[1]) # Shape(l.paths[2])

\* The point the claims C7 and C8 expect for a point p of the input.  The
\* four margins are the one margin the canvas reads from its paper.
ExpectedNormal(pp, p) ==
    LET usable_width  == pp.width - pp.margin - pp.margin
        usable_height == pp.height - pp.margin - pp.margin
    IN  point2(p.x * usable_width + pp.margin, p.y * usable_height + pp.margin)

ExpectedCanvas(pp, p) == point2(p.x + pp.margin, p.y + pp.margin)

\* The paths a draw call stored are its input with every point mapped by E.
StoredAs(E(_, _)) ==
    LET inp    == InputPaths(last)
        stored == LastPaths(slots[last.key.idx].value, Len(inp))
    IN  /\ Len(slots[last.key.idx].value.paths) >= Len(inp)
        /\ \A i \in 1..Len(inp) :
              /\ Len(stored[i]) = Len(inp[i])
              /\ \A j \in 1..Len(inp[i]) :
                    /\ stored[i][j].op = inp[i][j].op
                    /\ Len(stored[i][j].pts) = Len(inp[i][j].pts)
                    /\ \A n \in 1..Len(inp[i][j].pts) :
                          stored[i][j].pts[n] = E(paper, inp[i][j].pts[n])

C9_CreateLayerFresh ==
    [][(last'.op = "create_layer")
          => LET key == last'.key
                 pen == last'.arg
             IN  /\ key \notin issued
                 /\ LiveKeys(slots') = LiveKeys(slots) \cup {key}
                 /\ slots'[key.idx].value.paths = <<>>
                 /\ slots'[key.idx].value.color = pen.color
                 /\ slots'[key.idx].value.nib_size = pen.nib
                 /\ \A k \in LiveKeys(slots) :
                       slots'[k.idx].value = slots[k.idx].value]_vars

\* C9's case: a layer created in the slot of a removed layer, while another
\* layer holds a path.
C9_Witness ==
    /\ last.op = "create_layer"
    /\ last.key.version > 1
    /\ Len(values(slots)) = 2
    /\ CountPaths(values(slots)) > 0

\* C10: remove_layer with a live key returns Ok and deletes that layer and no
\* other; with any other key (never returned, or removed before) it returns
\* Err and leaves the layers, their paths and the view as they were.
C10_RemoveLayer ==
    [][(last'.op = "remove_layer")
          => LET key == last'.key
             IN  IF key \in LiveKeys(slots)
                 THEN /\ last'.ret = "Ok"
                      /\ LiveKeys(slots') = LiveKeys(slots) \ {key}
                      /\ \A k \in LiveKeys(slots') :
                            slots'[k.idx].value = slots[k.idx].value
                 ELSE /\ last'.ret = "Err"
                      /\ slots' = slots
                      /\ view' = view]_vars

\* C10's case: remove_layer returned Err for the key of a removed layer whose
\* slot holds a newer layer.
C10_Witness ==
    /\ last.op = "remove_layer"
    /\ last.ret = "Err"
    /\ last.key \in issued
    /\ last.key.idx \in 1..Len(slots)
    /\ Occupied(slots[last.key.idx])

(* ------------------- drawing with a key not live: claims --------------- *)

Exported == last.op = "create_svg"

\* The place of a layer's group among the groups of a document; 0 when the
\* document has no group for the layer.
GroupAt(doc, layer) ==
    LET at == {i \in 1..Len(doc.children) :
                  doc.children[i].id = "layer" \o ToString(layer.id + 1)}
    IN  IF at = {} THEN 0 ELSE CHOOSE i \in at : TRUE

\* The layers that are live.
LiveLayers == {slots[k.idx].value : k \in LiveKeys(slots)}

\* C12: the groups of an exported document follow the order in which their
\* layers were created (the layer ids count the creations).
C12_GroupsInCreationOrder ==
    Exported
    => \A a, b \in LiveLayers :
          a.id < b.id => GroupAt(last.ret, a) < GroupAt(last.ret, b)

\* C13: an exported document has one group per live layer and no other
\* group; a layer's group has one path element per path of the layer, in
\* the layer's order, each with the nib size of the layer's pen as its
\* stroke-width.
C13_GroupsAndPaths ==
    Exported
    => LET doc == last.ret
       IN  /\ Len(doc.children) = Cardinality(LiveKeys(slots))
           /\ \A l \in LiveLayers :
                 LET g == doc.children[GroupAt(doc, l)]
                     w == IF l.color = PenBlack.color THEN "3" ELSE "5"
                 IN  /\ GroupAt(doc, l) > 0
                     /\ Len(g.children) = Len(l.paths)
                     /\ \A i \in 1..Len(l.paths) :
                           /\ g.children[i].d = l.paths[i]
                           /\ g.children[i].stroke_width = w

\* C13's case: an export after a removal, of a layer with two different
\* paths and a layer with none, made with different pens.
C13_Witness ==
    /\ Exported
    /\ Cardinality(LiveKeys(slots)) = 2
    /\ Cardinality(LiveKeys(slots)) < Len(slots)
    /\ \E a, b \in LiveLayers :
          /\ a.color # b.color
          /\ a.paths = <<>>
          /\ Len(b.paths) = 2
          /\ b.paths[1] # b.paths[2]

C15_ExportIsPure ==
    [][(last'.op = "create_svg")
          => /\ paper' = paper
             /\ view' = view
             /\ slots' = slots
             /\ free_head' = free_head
             /\ layer_id_counter' = layer_id_counter
             /\ Exported => last'.ret = last.ret]_vars

\* C15's case: an export of a canvas with two layers that hold paths.
C15_Witness ==
    /\ Exported
    /\ Len(last.ret.children) = 2
    /\ \A i \in 1..2 : last.ret.children[i].children # <<>>

(* -------------------------- Polyline: claims -------------------------- *)

\* C16: Polyline::new handed no point or one point fails its assert and
\* yields no Polyline; handed two or more points it returns a Polyline.
C16_NewNeedsTwoPoints ==
    [][(last'.op = "Polyline::new")
          => IF Len(last'.arg) <= 1
             THEN /\ panicked' = "assert"
                  /\ last'.ret = "panic"
                  /\ polyline' = polyline
             ELSE /\ panicked' = "none"
                  /\ last'.ret = "ok"
                  /\ polyline'.made]_vars

\* C16's case: Polyline::new was handed one point, after a Polyline of three
\* points had been built.
C16_Witness ==
    /\ last.op = "Polyline::new"
    /\ Len(last.arg) = 1
    /\ panicked = "assert"
    /\ Len(polyline.vertices) = 3

\* C17: a Polyline holds the points it was built from, in their order:
\* len() is their number, get(i) is Some of the i-th of them (from 0) for
\* every i below len() and None for every other i; the reads leave the
\* Polyline as it was.
C17_LenAndGet ==
    [][/\ (last'.op = "Polyline::new" /\ last'.ret = "ok")
             => polyline'.vertices = last'.arg
       /\ (last'.op \in {"vertices", "get", "len"}) => polyline' = polyline
       /\ (last'.op = "len") => last'.ret = Len(polyline.vertices)
       /\ (last'.op = "vertices") => last'.ret = polyline.vertices
       /\ (last'.op = "get")
             => LET i == last'.arg
                IN  IF i + 1 <= Len(polyline.vertices)
                    THEN last'.ret = [some |-> TRUE,
                                      value |-> polyline.vertices[i + 1]]
                    ELSE last'.ret = [some |-> FALSE]]_vars

\* C17's case: get(2) returned the last of three points that differ from
\* one another.
C17_Witness ==
    /\ last.op = "get"
    /\ last.arg = 2
    /\ polyline.vertices = <<point2(3, 1), point2(0, 0), point2(1, 2)>>
    /\ last.ret = [some |-> TRUE, value |-> point2(1, 2)]

\* C22: every Polyline that new, the derived Default and Clone, and the
\* public vertices field can produce holds at least two points, so that
\* len() is at least 2.
C22_AtLeastTwoPoints ==
    /\ polyline.made => Len(polyline.vertices) >= 2
    /\ last.op = "len" => last.ret >= 2

(* ---------------------------- Paper: claims --------------------------- *)

\* C18: add_margins(t, r, b, l) keeps the paper's width and height, and a
\* switch_orientation that follows it returns the paper with width and
\* height exchanged and the margins (top, right, bottom, left) = (l, b, r, t).
C18_MarginsTurnWithPaper ==
    [][/\ (last'.op = "add_margins")
             => (sheet'.width = sheet.width /\ sheet'.height = sheet.height)
       /\ (last.op = "add_margins" /\ last'.op = "switch_orientation")
             => LET t == last.arg[1]
                    r == last.arg[2]
                    b == last.arg[3]
                    l == last.arg[4]
                IN  /\ sheet'.width = sheet.height
                    /\ sheet'.height = sheet.width
                    /\ sheet'.margin_top = l
                    /\ sheet'.margin_right = b
                    /\ sheet'.margin_bottom = r
                    /\ sheet'.margin_left = t]_vars

\* C18's case: a 100 x 40 paper given four different margins, then turned.
C18_Witness ==
    /\ last.op = "switch_orientation"
    /\ sheet.width = 40
    /\ sheet.height = 100
    /\ sheet.margin_top = 6
    /\ sheet.margin_right = 4
    /\ sheet.margin_bottom = 2
    /\ sheet.margin_left = -4

\* The drawable region of a paper, as f64 computes it.
UsableWidth(p) == Sub(Sub(p.width, p.margin_left), p.margin_right)

UsableHeight(p) == Sub(Sub(p.height, p.margin_top), p.margin_bottom)

\* The margins make_square(m) is to give the paper p: m on the short axis,
\* equal margins on the long axis; width and height kept.
SquareShape(p, q, m) ==
    /\ q.width = p.width
    /\ q.height = p.height
    /\ q.margin_left = q.margin_right
    /\ q.margin_top = q.margin_bottom
    /\ IF p.width > p.height
       THEN q.margin_top = m
       ELSE q.margin_left = m

\* The subtractions that make_square(m) on p and the measuring of the
\* result q go through lose nothing to rounding.
NothingRounded(p, q, m) ==
    LET short == IF p.width > p.height THEN p.height ELSE p.width
        long  == IF p.width > p.height THEN p.width ELSE p.height
        side  == IF p.width > p.height THEN q.margin_left ELSE q.margin_top
    IN  /\ Sub(short, m) = short - m
        /\ Sub(short - m, m) = short - m - m
        /\ Sub(long, short - m - m) = long - (short - m - m)
        /\ Sub(long, side) = long - side
        /\ Sub(long - side, side) = long - side - side

C20_FieldsNonNegative ==
    sheet.made
    => /\ sheet.width >= 0
       /\ sheet.height >= 0
       /\ sheet.margin_top >= 0
       /\ sheet.margin_right >= 0
       /\ sheet.margin_bottom >= 0
       /\ sheet.margin_left >= 0

(* ---------------------- draw_many as draws: claims -------------------- *)

\* The layers after draw(key, d) or draw_n(key, d) on the layers ss, for a
\* live key and the method's transform t.
AfterDraw(ss, key, t, d) ==
    [ss EXCEPT ![key.idx].value = PushAll(@, t, to_paths(d))]

\* The layers after draw(key, d1); ...; draw(key, dn) for items = <<d1..dn>>.
RECURSIVE AfterDraws(_, _, _, _)
AfterDraws(ss, key, t, items) ==
    IF items = <<>> THEN ss
    ELSE AfterDraws(AfterDraw(ss, key, t, Head(items)), key, t, Tail(items))

\* The transform each draw method applies to what it stores.
TransformOf(op) ==
    IF op \in {"draw", "draw_many"} THEN margin_transform(paper)
                                    ELSE canvas_transform(paper)

\* C23.  For a live key, draw_many(key, <<d1..dn>>) leaves the canvas as
\* draw(key, d1); ...; draw(key, dn) would, and draw_n_many(key, <<d1..dn>>)
\* as draw_n(key, d1); ...; draw_n(key, dn) would: the same layers with the
\* same paths in the same order, and paper, view, free list and id counter
\* untouched.  (The first conjunct states what one draw or draw_n does.)
C23_ManyIsEachInTurn ==
    [][/\ (last'.op \in {"draw", "draw_n"} /\ last'.ret = "ok")
             => slots' = AfterDraw(slots, last'.key,
                                   TransformOf(last'.op), last'.arg)
       /\ (last'.op \in {"draw_many", "draw_n_many"} /\ last'.ret = "ok")
             => /\ slots' = AfterDraws(slots, last'.key,
                                       TransformOf(last'.op), last'.arg)
                /\ <<paper, view, free_head, layer_id_counter, panicked>>'
                      = <<paper, view, free_head, layer_id_counter, panicked>>
      ]_vars

\* C23's case: draw_n_many stored the paths of two different drawables on a
\* live layer, the first drawable's path before the second's.
C23_Witness ==
    /\ last.op = "draw_n_many"
    /\ last.ret = "ok"
    /\ last.arg = <<<<NormalLine>>, <<NormalCurve>>>>
    /\ slots[last.key.idx].value.paths =
          <<PathTransform(canvas_transform(paper), NormalLine),
            PathTransform(canvas_transform(paper), NormalCurve)>>

(* ------------------------- stale keys: claims ------------------------- *)

Holds(chunk, marker) == marker \in {chunk[i] : i \in DOMAIN chunk}

\* After the chunks cs a parameter block is open: a chunk with the start
\* marker and without the end marker was received, and no chunk with the
\* end marker since.
BlockOpen(cs) ==
    \E i \in 1..Len(cs) :
       /\ Holds(cs[i], PARAMS_START)
       /\ ~Holds(cs[i], PARAMS_END)
       /\ \A j \in (i + 1)..Len(cs) : ~Holds(cs[j], PARAMS_END)

\* C24.  While a parameter block is open, from the chunk with
\* "fart: PARAMS START" (and without "fart: PARAMS END") up to the chunk
\* before the one with "fart: PARAMS END", the output callback only appends
\* the chunk to the buffer: it makes no attempt to send an event.
C24_NoOutputWhileParamsOpen ==
    [][(last'.op = "on_output" /\ BlockOpen(received'))
          => /\ broadcasts' = broadcasts
             /\ output_buffer' = output_buffer \o last'.arg
             /\ last'.ret = "buffered"]_vars

\* C24's case: with the block opened by the first chunk, a second chunk
\* arrived and joined it in the buffer; nothing has been sent.
C24_Witness ==
    /\ last.op = "on_output"
    /\ received = <<<<"x", PARAMS_START>>, <<"x">>>>
    /\ BlockOpen(received)
    /\ output_buffer = <<"x", PARAMS_START, "x">>
    /\ broadcasts = <<>>

\* The chunks of cs, or the data of the attempts cs, one after the other.
RECURSIVE Concat(_)
Concat(cs) == IF cs = <<>> THEN <<>> ELSE Head(cs) \o Concat(Tail(cs))

\* The data of the attempts to send an "output" event, in their order.
RECURSIVE OutputPayloads(_)
OutputPayloads(attempts) ==
    IF attempts = <<>> THEN <<>>
    ELSE (IF Head(attempts).event = "output" THEN <<Head(attempts).data>>
                                             ELSE <<>>)
         \o OutputPayloads(Tail(attempts))

\* C25.  Whenever no parameter block is open the buffer is empty and the
\* data of the attempts to send an "output" event, put end to end, is the
\* chunks received so far put end to end: each chunk went into one attempt,
\* in the order of arrival.  An attempt that failed emptied the buffer like
\* one that succeeded.
C25_EveryChunkSentOnce ==
    /\ ~BlockOpen(received)
          => /\ output_buffer = <<>>
             /\ Concat(OutputPayloads(broadcasts)) = Concat(received)
    /\ (last.op = "on_output" /\ last.ret \in SendOutcomes \ {"Ok"})
          => output_buffer = <<>>

\* C25's case: a chunk went out in an attempt that failed, then a
\* parameter block of two chunks went out whole in one attempt.
C25_Witness ==
    /\ last.op = "on_output"
    /\ last.ret = "Ok"
    /\ received = <<<<"x">>, <<"x", PARAMS_START>>, <<"y", PARAMS_END>>>>
    /\ OutputPayloads(broadcasts) =
          <<<<"x">>, <<"x", PARAMS_START, "y", PARAMS_END>>>>
    /\ broadcasts[1].outcome = "broadcast failed"
    /\ output_buffer = <<>>

====
